---- MODULE Spec2Model ----
(***************************************************************************)
(* Hyphal growth engine of pycelium: Section (core/section.py), Mycel      *)
(* (core/mycel.py), the field aggregator and the step_simulation driver    *)
(* (main.py).                                                              *)
(*                                                                         *)
(* Floating point quantities are carried in fixed point:                   *)
(*   - coordinates, lengths and unit vectors in units of 1/Scale,          *)
(*   - probabilities, blend factors and uniform draws in tenths,           *)
(*   - field values in units of 1/FieldScale.                              *)
(* The global random generators (numpy and Python random) are modelled as  *)
(* an arbitrary but fixed output stream per seed, read through a position. *)
(***************************************************************************)
EXTENDS Integers, Sequences, FiniteSets, TLC

\* ------------------------------------------------------------------ bounds
MaxSteps == 3
MaxSections == 4
MaxSeeds == 2
StreamLen == 3
MaxReads == 2

\* -------------------------------------------------------------- fixed point
Scale == 10
FieldScale == 100
\* section.py:162 `self.length < 1e-5`: below one fixed-point unit
LengthEps == 1

Abs(a) == IF a < 0 THEN 0 - a ELSE a
Sign(a) == IF a < 0 THEN 0 - 1 ELSE IF a > 0 THEN 1 ELSE 0
Min2(a, b) == IF a < b THEN a ELSE b
Max2(a, b) == IF a > b THEN a ELSE b

\* division rounded to nearest, symmetric around 0 (b > 0)
RDiv(a, b) == Sign(a) * ((2 * Abs(a) + b) \div (2 * b))

RECURSIVE SqrtSearch(_, _, _)
SqrtSearch(n, lo, hi) ==
    IF lo >= hi THEN lo
    ELSE LET mid == (lo + hi + 1) \div 2
         IN  IF mid * mid <= n THEN SqrtSearch(n, mid, hi)
             ELSE SqrtSearch(n, lo, mid - 1)

\* square root rounded to nearest
ISqrt(n) ==
    LET r == SqrtSearch(n, 0, Min2(n, 4096))
    IN  IF n - r * r > r THEN r + 1 ELSE r

RECURSIVE SumSeq(_)
SumSeq(s) == IF s = <<>> THEN 0 ELSE Head(s) + SumSeq(Tail(s))

\* ------------------------------------------------------------ MPoint (point.py)
MPoint(x, y, z) == <<x, y, z>>
ZeroVec == <<0, 0, 0>>
add(a, b) == <<a[1] + b[1], a[2] + b[2], a[3] + b[3]>>
subtract(a, b) == <<a[1] - b[1], a[2] - b[2], a[3] - b[3]>>
dot(a, b) == a[1] * b[1] + a[2] * b[2] + a[3] * b[3]
\* vector times an integer factor
scaleInt(a, k) == <<a[1] * k, a[2] * k, a[3] * k>>
\* vector times the rational num/den
scale(a, num, den) == <<RDiv(a[1] * num, den), RDiv(a[2] * num, den), RDiv(a[3] * num, den)>>
norm(a) == ISqrt(dot(a, a))
distance_to(a, b) == norm(subtract(a, b))

\* a vector of any magnitude brought to length Scale; the zero vector is left alone
normalise(a) ==
    LET n == norm(a)
    IN  IF dot(a, a) = 0 \/ n = 0 THEN a
        ELSE <<RDiv(a[1] * Scale, n), RDiv(a[2] * Scale, n), RDiv(a[3] * Scale, n)>>

\* cos and sin of a multiple of 90 degrees
CosDeg(angle) == LET m == angle % 360 IN IF m = 0 THEN 1 ELSE IF m = 180 THEN 0 - 1 ELSE 0
SinDeg(angle) == LET m == angle % 360 IN IF m = 90 THEN 1 ELSE IF m = 270 THEN 0 - 1 ELSE 0

\* Rodrigues rotation about the unit axis (0,0,1): k x v = (-y, x, 0), k (k.v) = (0, 0, z)
rotated_around_z(v, angle) ==
    LET c == CosDeg(angle)
        s == SinDeg(angle)
    IN  <<v[1] * c - v[2] * s, v[2] * c + v[1] * s, v[3] * c + v[3] * (1 - c)>>

\* ------------------------------------------------------------ random streams
\* outputs of the underlying generator in [0, 1), in tenths
UVals == {0, 5}
Streams == [1..StreamLen -> UVals]
\* value at position pos (0-based) of a stream
Draw(st, pos) == st[(pos % Len(st)) + 1]
\* np.random.uniform(-spread, spread)
UniformAngle(u, spread) == (0 - spread) + (2 * spread * u) \div 10
\* np.random.laplace(0, scale): negative below the median, positive above
LaplaceDraw(u, sc) == IF u < 5 THEN 0 - sc ELSE sc
\* np.random.normal(0, 1): negative below the median, positive above
NormalDraw(u) == IF u < 5 THEN 0 - Scale ELSE Scale
\* index in 1..n selected by u
PickIndex(u, n) == ((u * n) \div 10) + 1

\* ------------------------------------------------------------ Options
\* The option values read by Section, Mycel, FieldAggregator and Orientator.
\* Lengths and box bounds are in units of 1/Scale, probabilities and blend
\* factors in tenths, field thresholds in units of 1/FieldScale.
BaseOptions ==
    [ growth_rate |-> 1, time_step |-> 1,
      length_scaled_growth |-> FALSE, length_growth_coef |-> 10,
      volume_constraint |-> FALSE,
      x_min |-> 0 - 15, x_max |-> 15, y_min |-> 0 - 15, y_max |-> 15,
      z_min |-> 0 - 15, z_max |-> 15,
      direction_memory_blend |-> 0,
      branching_master |-> TRUE, secondary_branching |-> TRUE,
      max_branches |-> 2, min_tip_age |-> 0, min_tip_length |-> 0,
      branch_time_window |-> 40, field_threshold |-> 1000,
      branch_probability |-> 10, branch_angle_spread |-> 90,
      curvature_branch_bias |-> 0, leading_branch_prob |-> 0,
      rgb_mutations_enabled |-> FALSE, color_mutation_prob |-> 10,
      color_mutation_scale |-> 2, initial_color |-> <<5, 5, 5>>,
      allow_internal_branching |-> FALSE,
      die_if_old |-> FALSE, max_age |-> 300, max_length |-> 500,
      die_if_too_dense |-> FALSE, density_threshold |-> 20,
      use_nutrient_field |-> FALSE, nutrient_attraction |-> 0, nutrient_repulsion |-> 0,
      neighbour_radius |-> 0, min_supported_tips |-> 0, max_supported_tips |-> 0,
      autotropism |-> 0, field_alignment_boost |-> 0, field_curvature_influence |-> 0,
      gravitropism |-> 0, gravi_angle_start |-> 100, gravi_angle_end |-> 500,
      anisotropy_enabled |-> FALSE, anisotropy_vector |-> <<1, 0, 0>>,
      anisotropy_strength |-> 1,
      random_walk |-> 0,
      seed |-> 123 ]

\* ------------------------------------------------------------ Section (section.py)
\* Section.__init__: a fresh section object with identity id
NewSection(id, start, orientation, opts, parent, color) ==
    LET o == normalise(orientation)
    IN  [ id |-> id,
          start |-> start,
          orientation |-> o,
          length |-> 0,
          age |-> 0,
          is_tip |-> TRUE,
          is_dead |-> FALSE,
          branches_made |-> 0,
          parent |-> parent,
          children |-> <<>>,
          end |-> start,
          subsegments |-> << <<start, start>> >>,
          field_aggregator |-> FALSE,
          direction_memory |-> o,
          color |-> color ]

\* the coordinate c clamped into [lo, hi]
Clamp(c, lo, hi) == IF c < lo THEN lo ELSE IF c > hi THEN hi ELSE c

\* the volume constraint check of grow(): is the point outside the box
OutOfBounds(p, opts) ==
    \/ p[1] < opts.x_min \/ p[1] > opts.x_max
    \/ p[2] < opts.y_min \/ p[2] > opts.y_max
    \/ p[3] < opts.z_min \/ p[3] > opts.z_max

\* a faulty clamp that always puts the point on the upper y face
ClampToBox_face(p, opts) ==
    << Clamp(p[1], opts.x_min, opts.x_max), opts.y_max, Clamp(p[3], opts.z_min, opts.z_max) >>

ClampToBox(p, opts) ==
    << Clamp(p[1], opts.x_min, opts.x_max),
       Clamp(p[2], opts.y_min, opts.y_max),
       Clamp(p[3], opts.z_min, opts.z_max) >>

\* a faulty growth_distance that scales with the length whatever the options say
GrowthDistance_always(s, rate, dt, opts) ==
    RDiv(rate * dt * (10 * Scale + s.length * opts.length_growth_coef), 10)

\* growth_distance of grow(), in units of 1/Scale
GrowthDistance(s, rate, dt, opts) ==
    IF opts.length_scaled_growth
    THEN RDiv(rate * dt * (10 * Scale + s.length * opts.length_growth_coef), 10)
    ELSE rate * dt * Scale

\* blend of two vectors with weight a (tenths) on the second, normalised
Blend(v, w, a) == normalise(add(scaleInt(v, 10 - a), scaleInt(w, a)))

\* a faulty grow() without the guard on is_tip and is_dead
grow_unguarded(s, rate, dt, opts) ==
    [s EXCEPT !.end = add(s.end, scale(s.orientation, GrowthDistance(s, rate, dt, opts), Scale)),
              !.length = s.length + GrowthDistance(s, rate, dt, opts),
              !.age = s.age + dt,
              !.subsegments = Append(s.subsegments,
                  <<s.end, add(s.end, scale(s.orientation, GrowthDistance(s, rate, dt, opts), Scale))>>)]

\* Section.grow(rate, dt)
grow(s, rate, dt, opts) ==
    IF ~s.is_tip \/ s.is_dead THEN s
    ELSE
      LET gd == GrowthDistance(s, rate, dt, opts)
          delta == scale(s.orientation, gd, Scale)
          newEnd == add(s.end, delta)
          grown == [s EXCEPT !.end = newEnd,
                             !.length = s.length + gd,
                             !.age = s.age + dt,
                             !.subsegments = Append(s.subsegments, <<s.end, newEnd>>)]
      IN  IF opts.volume_constraint /\ OutOfBounds(newEnd, opts)
          THEN LET clamped == ClampToBox(newEnd, opts)
               IN  [grown EXCEPT !.end = clamped,
                                 !.length = distance_to(s.start, clamped),
                                 !.is_tip = FALSE]
          ELSE [grown EXCEPT !.direction_memory =
                      Blend(s.direction_memory, s.orientation, opts.direction_memory_blend)]

\* a faulty update() that never kills
update_nokill(s) == [s EXCEPT !.length = distance_to(s.start, s.end)]

\* a faulty update() that keeps the length grow() accumulated
update_keep(s) ==
    [s EXCEPT !.is_dead = IF s.length < LengthEps THEN TRUE ELSE s.is_dead]

\* Section.update()
update(s) ==
    LET len == distance_to(s.start, s.end)
    IN  [s EXCEPT !.length = len,
                  !.is_dead = IF len < LengthEps THEN TRUE ELSE s.is_dead]

\* ------------------------------------------------ field sources and aggregator
\* SectFieldFinder(section, strength, decay): strength and decay in tenths
SectSource(h, strength, decay) ==
    [kind |-> "sect", section |-> h, location |-> ZeroVec,
     strength |-> strength, decay |-> decay, repulsive |-> FALSE]

\* NutrientFieldFinder(location, strength, decay, repulsive)
NutrientSource(loc, strength, decay, repulsive) ==
    [kind |-> "nutrient", section |-> 0, location |-> loc,
     strength |-> strength, decay |-> decay, repulsive |-> repulsive]

\* SectFieldFinder._closest_point_on_segment
closest_point_on_segment(sec, p) ==
    LET ab == subtract(sec.end, sec.start)
        ap == subtract(p, sec.start)
        denom == dot(ab, ab)
        t == IF denom # 0 THEN Clamp(dot(ap, ab), 0, denom) ELSE 0
    IN  IF denom = 0 THEN sec.start
        ELSE add(sec.start, <<RDiv(t * ab[1], denom), RDiv(t * ab[2], denom), RDiv(t * ab[3], denom)>>)

\* the point a source measures distances from
SourcePoint(src, heap, p) ==
    IF src.kind = "sect" THEN closest_point_on_segment(heap[src.section], p)
    ELSE src.location

\* strength / (1 + decay * d), in units of 1/FieldScale
Decayed(strength, decay, d) ==
    RDiv(strength * FieldScale * Scale, 10 * Scale + decay * d)

\* find_field of SectFieldFinder and NutrientFieldFinder
find_field(src, heap, p) ==
    LET d == distance_to(p, SourcePoint(src, heap, p))
        f == Decayed(src.strength, src.decay, d)
    IN  IF src.repulsive THEN 0 - f ELSE f

\* gradient of SectFieldFinder and NutrientFieldFinder: the unit direction from
\* the source to the point, reversed for a repellent, zero at the source
gradient(src, heap, p) ==
    LET dir == subtract(p, SourcePoint(src, heap, p))
    IN  IF dot(dir, dir) = 0 THEN ZeroVec
        ELSE IF src.repulsive THEN normalise(scaleInt(dir, 0 - 1))
        ELSE normalise(dir)

\* get_id of a source: the identity of the wrapped section (sect), or of the
\* finder object itself (nutrient), which is never the identity of a section
SourceId(src) == IF src.kind = "sect" THEN src.section ELSE 0

\* the sources compute_field does not skip. A source without a `section`
\* attribute raises as soon as the neighbour radius test reads it.
RECURSIVE FieldSum(_, _, _, _, _, _)
FieldSum(sources, k, heap, p, exclude_ids, opts) ==
    IF k > Len(sources) THEN [field |-> 0, grad |-> ZeroVec, raised |-> FALSE]
    ELSE
      LET src == sources[k]
          rest == FieldSum(sources, k + 1, heap, p, exclude_ids, opts)
      IN  IF SourceId(src) \in exclude_ids THEN rest
          ELSE IF opts.neighbour_radius > 0 /\ src.kind # "sect"
               THEN [field |-> 0, grad |-> ZeroVec, raised |-> TRUE]
          ELSE IF opts.neighbour_radius > 0
                  /\ distance_to(p, heap[src.section].end) > opts.neighbour_radius
               THEN rest
          ELSE [field |-> find_field(src, heap, p) + rest.field,
                grad |-> add(gradient(src, heap, p), rest.grad),
                raised |-> rest.raised]

\* FieldAggregator.compute_field(point, exclude_ids)
compute_field(sources, heap, p, exclude_ids, opts) ==
    LET r == FieldSum(sources, 1, heap, p, exclude_ids, opts)
    IN  [field |-> r.field, grad |-> normalise(r.grad), raised |-> r.raised]

\* ------------------------------------------------------------ process state
\* One Python process running one engine: the Section objects created so far
\* (heap, in creation order: the object at index h has id h - 1), the Mycel
\* object, the sources of the FieldAggregator, the end points last counted by
\* the DensityGrid, and the positions of the numpy and Python random streams.
\* The streams themselves and the options are passed alongside.

NoChild == 0

\* curvature vector of maybe_branch() from the last three subsegment records
CurvatureVector(s) ==
    LET n == Len(s.subsegments)
        p1 == s.subsegments[n - 2][1]
        p2 == s.subsegments[n - 1][1]
        p3 == s.subsegments[n][2]
        v1 == normalise(subtract(p2, p1))
        v2 == normalise(subtract(p3, p2))
    IN  normalise(subtract(v2, v1))

\* the branch direction of maybe_branch(): rotation, curvature bias, memory bias
BranchDirection(s, angle, opts) ==
    LET rot == rotated_around_z(s.orientation, angle)
        curved == IF opts.curvature_branch_bias > 0 /\ Len(s.subsegments) >= 3
                  THEN Blend(rot, CurvatureVector(s), opts.curvature_branch_bias)
                  ELSE rot
    IN  IF opts.direction_memory_blend > 0
        THEN Blend(curved, s.direction_memory, opts.direction_memory_blend)
        ELSE curved

\* one colour channel after mutation, clamped into [0, 1] (tenths)
MutateChannel(base, d) == Min2(Max2(base + d, 0), 10)

\* faulty gates that do not look at branches_made
BranchGates_nomax(s, f, opts) ==
    IF ~s.is_tip \/ s.is_dead THEN "none"
    ELSE IF s.age < opts.min_tip_age \/ s.length < opts.min_tip_length THEN "none"
    ELSE IF s.age > opts.branch_time_window THEN "none"
    ELSE "draw"

\* the gates of maybe_branch() before the random draw, given the result f of
\* the field query at the tip: "none" (return None), "raise" or "draw"
BranchGates(s, f, opts) ==
    IF ~s.is_tip \/ s.is_dead THEN "none"
    ELSE IF s.branches_made >= opts.max_branches THEN "none"
    ELSE IF s.age < opts.min_tip_age \/ s.length < opts.min_tip_length THEN "none"
    ELSE IF s.age > opts.branch_time_window THEN "none"
    ELSE IF ~s.field_aggregator THEN "draw"
    ELSE IF f.raised THEN "raise"
    ELSE IF f.field >= opts.field_threshold THEN "none"
    ELSE "draw"

\* the colour of the child: mutated channel by channel, or inherited
ChildColor(s, mutate, pos, opts, npst) ==
    IF mutate
    THEN << MutateChannel(s.color[1], LaplaceDraw(Draw(npst, pos), opts.color_mutation_scale)),
            MutateChannel(s.color[2], LaplaceDraw(Draw(npst, pos + 1), opts.color_mutation_scale)),
            MutateChannel(s.color[3], LaplaceDraw(Draw(npst, pos + 2), opts.color_mutation_scale)) >>
    ELSE s.color

\* a faulty child that does not know its parent
ChildSection_orphan(s, h, c, orientation, color, opts) ==
    [NewSection(c - 1, s.end, orientation, opts, 0, color)
        EXCEPT !.direction_memory = s.direction_memory,
               !.field_aggregator = s.field_aggregator]

\* a faulty child that has already lived through one time step
ChildSection_aged(s, h, c, orientation, color, opts) ==
    [NewSection(c - 1, s.end, orientation, opts, h, color) EXCEPT !.age = opts.time_step]

\* the child object of maybe_branch(), created at heap index c
ChildSection(s, h, c, orientation, color, opts) ==
    [NewSection(c - 1, s.end, orientation, opts, h, color)
        EXCEPT !.direction_memory = s.direction_memory,
               !.field_aggregator = s.field_aggregator]

\* a faulty branch in which the parent always takes the new direction
CreateBranch_swap(W, h, s, rotated, keep_self_leading, mutate, opts, npst) ==
    [W |-> [W EXCEPT
              !.heap = Append(
                  [W.heap EXCEPT ![h] =
                      [s EXCEPT !.orientation = rotated,
                                !.children = Append(s.children, Len(W.heap) + 1),
                                !.branches_made = s.branches_made + 1]],
                  ChildSection(s, h, Len(W.heap) + 1, s.orientation,
                               ChildColor(s, mutate, W.np + 3, opts, npst), opts)),
              !.np = W.np + (IF mutate THEN 6 ELSE 3),
              !.py = W.py + (IF opts.rgb_mutations_enabled THEN 1 ELSE 0)],
     child |-> Len(W.heap) + 1, raised |-> FALSE]

\* maybe_branch() once the draw has succeeded: leading-branch choice, colour,
\* child creation and the parent's bookkeeping
CreateBranch(W, h, s, rotated, keep_self_leading, mutate, opts, npst) ==
    [W |-> [W EXCEPT
              !.heap = Append(
                  [W.heap EXCEPT ![h] =
                      [s EXCEPT !.orientation = IF keep_self_leading THEN s.orientation ELSE rotated,
                                !.children = Append(s.children, Len(W.heap) + 1),
                                !.branches_made = s.branches_made + 1]],
                  ChildSection(s, h, Len(W.heap) + 1,
                               IF keep_self_leading THEN rotated ELSE s.orientation,
                               ChildColor(s, mutate, W.np + 3, opts, npst), opts)),
              !.np = W.np + (IF mutate THEN 6 ELSE 3),
              !.py = W.py + (IF opts.rgb_mutations_enabled THEN 1 ELSE 0)],
     child |-> Len(W.heap) + 1, raised |-> FALSE]

\* maybe_branch() after its gates
BranchDecision(W, h, s, gate, branch_chance, opts, npst, pyst) ==
    IF gate = "raise" THEN [W |-> W, child |-> NoChild, raised |-> TRUE]
    ELSE IF gate = "none" THEN [W |-> W, child |-> NoChild, raised |-> FALSE]
    ELSE IF ~(Draw(npst, W.np) < branch_chance)
         THEN [W |-> [W EXCEPT !.np = W.np + 1], child |-> NoChild, raised |-> FALSE]
    ELSE CreateBranch(W, h, s,
                      BranchDirection(s, UniformAngle(Draw(npst, W.np + 1), opts.branch_angle_spread), opts),
                      Draw(npst, W.np + 2) < opts.leading_branch_prob,
                      opts.rgb_mutations_enabled /\ Draw(pyst, W.py) < opts.color_mutation_prob,
                      opts, npst)

\* Section.maybe_branch(branch_chance) called on the object at heap index h.
\* Result: the process state after the call, the heap index of the returned
\* child (NoChild for None) and whether the call raised.
maybe_branch(W, h, branch_chance, opts, npst, pyst) ==
    BranchDecision(W, h, W.heap[h],
                   BranchGates(W.heap[h], compute_field(W.sources, W.heap, W.heap[h].end, {h}, opts), opts),
                   branch_chance, opts, npst, pyst)

\* ------------------------------------------------------------ Mycel (mycel.py)
\* Mycel.__init__
NewMycel ==
    [sections |-> <<>>, time |-> 0, step_history |-> <<>>,
     time_series |-> <<>>, biomass_history |-> <<>>]

IsLiveTip(s) == s.is_tip /\ ~s.is_dead

\* subsequence of the heap indices ids whose object satisfies get_tips' filter
RECURSIVE FilterTips(_, _)
FilterTips(heap, ids) ==
    IF ids = <<>> THEN <<>>
    ELSE IF IsLiveTip(heap[Head(ids)])
         THEN <<Head(ids)>> \o FilterTips(heap, Tail(ids))
         ELSE FilterTips(heap, Tail(ids))

\* a faulty get_tips() that hands out the whole collection
get_tips_all(W) == W.mycel.sections

\* Mycel.get_tips()
get_tips(W) == FilterTips(W.heap, W.mycel.sections)

\* Mycel.get_all_segments()
get_all_segments(W) == W.mycel.sections

\* Mycel.seed(location, orientation, color)
seed(W, location, orientation, color, opts) ==
    LET h == Len(W.heap) + 1
        root == NewSection(h - 1, location, orientation, opts, 0,
                           IF color = <<>> THEN opts.initial_color ELSE color)
    IN  [W EXCEPT !.heap = Append(W.heap, root),
                  !.mycel.sections = Append(W.mycel.sections, h)]

\* a faulty grow pass that revives every section before growing it
GrowPass_revive(heap, ids, k, opts) ==
    [h \in 1..Len(heap) |->
        IF \E j \in k..Len(ids) : ids[j] = h
        THEN update(grow([heap[h] EXCEPT !.is_dead = FALSE, !.is_tip = TRUE],
                         opts.growth_rate, opts.time_step, opts))
        ELSE heap[h]]

\* step(), pass 1: grow and update every non-dead section
RECURSIVE GrowPass(_, _, _, _)
GrowPass(heap, ids, k, opts) ==
    IF k > Len(ids) THEN heap
    ELSE LET h == ids[k]
             s == heap[h]
         IN  IF s.is_dead THEN GrowPass(heap, ids, k + 1, opts)
             ELSE GrowPass([heap EXCEPT ![h] = update(grow(s, opts.growth_rate, opts.time_step, opts))],
                           ids, k + 1, opts)

\* the other live tips within neighbour_radius of the section at heap index h
NearbyCount(heap, ids, h, opts) ==
    LET tips == FilterTips(heap, ids)
    IN  Cardinality({j \in 1..Len(tips) :
                        /\ tips[j] # h
                        /\ distance_to(heap[h].end, heap[tips[j]].end) <= opts.neighbour_radius})

\* a faulty verdict that skips the length limit
Verdict_nolength(W, h, s, f, opts) ==
    IF opts.die_if_old /\ s.age > opts.max_age THEN "dead"
    ELSE IF ~s.field_aggregator THEN "alive"
    ELSE IF (opts.die_if_too_dense \/ opts.use_nutrient_field) /\ f.raised THEN "raise"
    ELSE IF opts.die_if_too_dense /\ f.field > opts.density_threshold THEN "dead"
    ELSE IF opts.use_nutrient_field /\ f.field < 0 - Abs(opts.nutrient_repulsion) THEN "dead"
    ELSE IF NearbyCount(W.heap, W.mycel.sections, h, opts) < opts.min_supported_tips THEN "dead"
    ELSE "alive"

\* the verdict of the destructor checks A to E on the live tip s at heap
\* index h, given the result f of the field query at its end
Verdict(W, h, s, f, opts) ==
    IF opts.die_if_old /\ s.age > opts.max_age THEN "dead"
    ELSE IF s.length > opts.max_length THEN "dead"
    ELSE IF ~s.field_aggregator THEN "alive"
    ELSE IF (opts.die_if_too_dense \/ opts.use_nutrient_field) /\ f.raised THEN "raise"
    ELSE IF opts.die_if_too_dense /\ f.field > opts.density_threshold THEN "dead"
    ELSE IF opts.use_nutrient_field /\ f.field < 0 - Abs(opts.nutrient_repulsion) THEN "dead"
    ELSE IF NearbyCount(W.heap, W.mycel.sections, h, opts) < opts.min_supported_tips THEN "dead"
    ELSE "alive"

DeathVerdict(W, h, opts) ==
    Verdict(W, h, W.heap[h], compute_field(W.sources, W.heap, W.heap[h].end, {}, opts), opts)

\* step(), pass 2: the destructor loop, in collection order
RECURSIVE DeathPass(_, _, _)
DeathApply(W, k, h, v, opts) ==
    IF v = "raise" THEN [W |-> W, raised |-> TRUE]
    ELSE IF v = "dead" THEN DeathPass([W EXCEPT !.heap[h].is_dead = TRUE], k + 1, opts)
    ELSE DeathPass(W, k + 1, opts)

DeathPass(W, k, opts) ==
    IF k > Len(W.mycel.sections) THEN [W |-> W, raised |-> FALSE]
    ELSE IF ~IsLiveTip(W.heap[W.mycel.sections[k]]) THEN DeathPass(W, k + 1, opts)
    ELSE DeathApply(W, k, W.mycel.sections[k], DeathVerdict(W, W.mycel.sections[k], opts), opts)

\* step(), pass 3: branching over the sections present when the step started
RECURSIVE BranchPass(_, _, _, _, _, _)
BranchCollect(k, new_sections, r, opts, npst, pyst) ==
    IF r.raised THEN [W |-> r.W, new_sections |-> new_sections, raised |-> TRUE]
    ELSE BranchPass(r.W, k + 1,
                    IF r.child # NoChild THEN Append(new_sections, r.child) ELSE new_sections,
                    opts, npst, pyst)

BranchPass(W, k, new_sections, opts, npst, pyst) ==
    IF k > Len(W.mycel.sections) THEN [W |-> W, new_sections |-> new_sections, raised |-> FALSE]
    ELSE IF W.heap[W.mycel.sections[k]].is_dead
            \/ ~(W.heap[W.mycel.sections[k]].is_tip \/ opts.allow_internal_branching)
         THEN BranchPass(W, k + 1, new_sections, opts, npst, pyst)
    ELSE BranchCollect(k, new_sections,
                       maybe_branch(W, W.mycel.sections[k], opts.branch_probability, opts, npst, pyst),
                       opts, npst, pyst)

\* the sequence seq without its element at index i
RemoveAt(seq, i) == SubSeq(seq, 1, i - 1) \o SubSeq(seq, i + 1, Len(seq))

\* a faulty choice that picks with replacement
RandomChoice_replace(tips, excess, pos, npst) ==
    [k \in 1..excess |-> tips[PickIndex(Draw(npst, pos + k - 1), Len(tips))]]

\* np.random.choice(tips, size = excess, replace = False): excess picks
\* without replacement, one draw of the numpy stream each
RECURSIVE RandomChoice(_, _, _, _)
RandomChoice(tips, excess, pos, npst) ==
    IF excess = 0 \/ tips = <<>> THEN <<>>
    ELSE LET i == PickIndex(Draw(npst, pos), Len(tips))
         IN  <<tips[i]>> \o RandomChoice(RemoveAt(tips, i), excess - 1, pos + 1, npst)

RECURSIVE MarkDead(_, _)
MarkDead(heap, ids) ==
    IF ids = <<>> THEN heap
    ELSE MarkDead([heap EXCEPT ![Head(ids)].is_dead = TRUE], Tail(ids))

\* step(), pass 5: pruning of the tips in excess of max_supported_tips
PruneTips(W, active_tips, opts, npst) ==
    IF opts.max_supported_tips > 0 /\ Len(active_tips) > opts.max_supported_tips
    THEN [W EXCEPT !.heap = MarkDead(W.heap, RandomChoice(active_tips,
                                         Len(active_tips) - opts.max_supported_tips, W.np, npst)),
                   !.np = W.np + (Len(active_tips) - opts.max_supported_tips)]
    ELSE W

PrunePass(W, opts, npst) == PruneTips(W, get_tips(W), opts, npst)

\* one time_series record
TipRecord(s, time) ==
    [time |-> time, x |-> s.end[1], y |-> s.end[2], z |-> s.end[3],
     age |-> s.age, length |-> s.length]

\* the time_series snapshot of the live tips
SnapshotOf(W, tips) == [j \in 1..Len(tips) |-> TipRecord(W.heap[tips[j]], W.mycel.time)]

StepSnapshot(W) == SnapshotOf(W, get_tips(W))

\* the tip positions of a step_history entry
TipEnds(W, tips) == [j \in 1..Len(tips) |-> W.heap[tips[j]].end]

TipData(W) == TipEnds(W, get_tips(W))

\* sum(sec.length for sec in self.sections if not sec.is_dead)
TotalBiomass(W) ==
    SumSeq([k \in 1..Len(W.mycel.sections) |->
               IF W.heap[W.mycel.sections[k]].is_dead THEN 0
               ELSE W.heap[W.mycel.sections[k]].length])

\* a faulty extend that puts the new sections in front
ExtendSections_front(W, new_sections) ==
    [W EXCEPT !.mycel.sections = new_sections \o W.mycel.sections]

\* step(): self.sections.extend(new_sections)
ExtendSections(W, new_sections) ==
    [W EXCEPT !.mycel.sections = W.mycel.sections \o new_sections]

\* a faulty record that advances the clock before it takes the snapshot
RecordSnapshot_late(W, opts) ==
    [W EXCEPT !.mycel.time_series =
                  Append(W.mycel.time_series,
                         SnapshotOf([W EXCEPT !.mycel.time = W.mycel.time + opts.time_step],
                                    get_tips(W))),
              !.mycel.time = W.mycel.time + opts.time_step]

\* step(): the time_series snapshot and the advance of the clock
RecordSnapshot(W, opts) ==
    [W EXCEPT !.mycel.time_series = Append(W.mycel.time_series, StepSnapshot(W)),
              !.mycel.time = W.mycel.time + opts.time_step]

\* step(): the step_history and biomass_history records
RecordHistory(W) ==
    [W EXCEPT !.mycel.step_history = Append(W.mycel.step_history, <<W.mycel.time, TipData(W)>>),
              !.mycel.biomass_history = Append(W.mycel.biomass_history, TotalBiomass(W))]

\* step(), from the prune pass to the biomass record; the result keeps the
\* state the prune pass started from
FinishStep(W, opts, npst) ==
    [W |-> RecordHistory(PrunePass(W, opts, npst)), raised |-> FALSE, before_prune |-> W]

\* a call that raised in state W
Raised(W) == [W |-> W, raised |-> TRUE, before_prune |-> W]

\* step() after the destructor loop: the log line that reads the loop
\* variable, then branching and the rest
AfterBranch(b, opts, npst) ==
    IF b.raised THEN Raised(b.W)
    ELSE FinishStep(RecordSnapshot(ExtendSections(b.W, b.new_sections), opts), opts, npst)

AfterDeath(d, opts, npst, pyst) ==
    IF d.raised THEN Raised(d.W)
    ELSE IF d.W.mycel.sections = <<>> THEN Raised(d.W)
    ELSE AfterBranch(BranchPass(d.W, 1, <<>>, opts, npst, pyst), opts, npst)

\* Mycel.step(): the process state after the call and whether it raised
step(W, opts, npst, pyst) ==
    AfterDeath(DeathPass([W EXCEPT !.heap = GrowPass(W.heap, W.mycel.sections, 1, opts)], 1, opts),
               opts, npst, pyst)

\* ------------------------------------------------ DensityGrid (density_map.py)
\* DensityGrid(width = 100, height = 100, resolution = 1.0)
GridSize == 100

\* int(a / b) of Python: the quotient truncated towards zero (b > 0)
TruncDiv(a, b) == Sign(a) * (Abs(a) \div b)

\* the grid cell <<i, j>> of a point: i from y, j from x
GridCell(p) ==
    << TruncDiv(p[2] + (GridSize \div 2) * Scale, Scale),
       TruncDiv(p[1] + (GridSize \div 2) * Scale, Scale) >>

\* self.grid[i, j] after update_from_mycel counted the end points in grid
GridCount(grid, i, j) ==
    IF i < 0 \/ i >= GridSize \/ j < 0 \/ j >= GridSize THEN 0
    ELSE Cardinality({k \in 1..Len(grid) : GridCell(grid[k]) = <<i, j>>})

\* DensityGrid.get_gradient_at(point)
get_gradient_at(grid, p) ==
    LET i == GridCell(p)[1]
        j == GridCell(p)[2]
    IN  IF 1 <= i /\ i < GridSize - 1 /\ 1 <= j /\ j < GridSize - 1
        THEN normalise(<< (GridCount(grid, i, j + 1) - GridCount(grid, i, j - 1)) * Scale,
                          (GridCount(grid, i + 1, j) - GridCount(grid, i - 1, j)) * Scale,
                          0 >>)
        ELSE ZeroVec

\* DensityGrid.update_from_mycel(mycel): one point per segment end
update_from_mycel(W) ==
    [k \in 1..Len(W.mycel.sections) |-> W.heap[W.mycel.sections[k]].end]

\* ------------------------------------------------ Orientator (orientator.py)
\* FieldAggregator.compute_field_curvature(point, epsilon = 1.0)
compute_field_curvature(sources, heap, p, opts) ==
    LET base == compute_field(sources, heap, p, {}, opts).field
        offsets == << <<Scale, 0, 0>>, <<0 - Scale, 0, 0>>, <<0, Scale, 0>>,
                      <<0, 0 - Scale, 0>>, <<0, 0, Scale>>, <<0, 0, 0 - Scale>> >>
    IN  SumSeq([k \in 1..6 |->
                  compute_field(sources, heap, add(p, offsets[k]), {}, opts).field - base])

\* the strength of the gravity pull at height z
GravityStrength(z, opts) ==
    IF z < opts.gravi_angle_start * Scale THEN 0
    ELSE IF z > opts.gravi_angle_end * Scale THEN opts.gravitropism
    ELSE RDiv((z - opts.gravi_angle_start * Scale) * opts.gravitropism,
              (opts.gravi_angle_end - opts.gravi_angle_start) * Scale)

\* AnisotropyGrid(100, 100, 100, resolution 10).get_direction_at(point), the
\* grid holding the uniform direction opts.anisotropy_vector
get_direction_at(p, opts) ==
    IF \A c \in 1..3 : LET i == TruncDiv(p[c] + 50 * Scale, 10 * Scale) IN 0 <= i /\ i < 10
    THEN normalise(scaleInt(opts.anisotropy_vector, Scale))
    ELSE ZeroVec

\* Orientator.compute: the alignment boost along the unit gradient
AlignmentBoost(o, grad_unit, opts) ==
    IF opts.field_alignment_boost > 0 /\ dot(o, grad_unit) > 0
    THEN add(o, scale(grad_unit, dot(o, grad_unit) * opts.field_alignment_boost, Scale * Scale * 10))
    ELSE o

\* Orientator.compute: the pull along the gradient scaled by the field curvature
CurvatureTerm(o, grad, s, sources, heap, opts) ==
    IF opts.field_curvature_influence > 0
    THEN add(o, scale(normalise(grad),
                      compute_field_curvature(sources, heap, s.end, opts)
                          * opts.field_curvature_influence,
                      FieldScale * 10))
    ELSE o

\* the field part of Orientator.compute, given the gradient already scaled by
\* autotropism (grad.scale works in place)
FieldTermOf(orientation, grad, s, sources, heap, opts) ==
    CurvatureTerm(AlignmentBoost(add(orientation, grad), normalise(grad), opts),
                  grad, s, sources, heap, opts)

\* Orientator.compute: self.aggregator.compute_field(section.end), a call that
\* passes no exclude_ids
AggregatorQuery(s, sources, heap, opts) == compute_field(sources, heap, s.end, {}, opts)

\* the field part of Orientator.compute: gradient, alignment boost, curvature
FieldTerm(orientation, s, sources, heap, opts) ==
    FieldTermOf(orientation,
                scale(AggregatorQuery(s, sources, heap, opts).grad, opts.autotropism, 10),
                s, sources, heap, opts)

\* Orientator.compute: density-based avoidance
DensityTerm(o, s, grid, opts) ==
    IF opts.die_if_too_dense THEN subtract(o, get_gradient_at(grid, s.end)) ELSE o

\* Orientator.compute: gravitropism, along the negative y axis
GravityTerm(o, s, opts) ==
    IF opts.gravitropism > 0
    THEN add(o, <<0, 0 - RDiv(Scale * GravityStrength(s.end[3], opts), 10), 0>>)
    ELSE o

\* Orientator.compute: grid-based anisotropy
AnisotropyTerm(o, s, opts) ==
    IF opts.anisotropy_enabled
    THEN add(o, scale(get_direction_at(s.end, opts), opts.anisotropy_strength, 10))
    ELSE o

\* Orientator.compute: the random walk, from three draws of the numpy stream
RandomWalkTerm(o, opts, u1, u2, u3) ==
    IF opts.random_walk > 0
    THEN add(o, scale(normalise(<<NormalDraw(u1), NormalDraw(u2), NormalDraw(u3)>>),
                      opts.random_walk, 10))
    ELSE o

\* Orientator.compute: blending with the section's current orientation
MemoryTerm(o, s, opts) ==
    IF opts.direction_memory_blend > 0
    THEN Blend(o, s.orientation, opts.direction_memory_blend)
    ELSE o

\* Orientator.compute(section) with the aggregator, the density grid and the
\* anisotropy grid that setup_simulation installs; u1, u2, u3 are the three
\* draws of the random walk
OrientatorCompute(s, W, opts, u1, u2, u3) ==
    normalise(
      MemoryTerm(
        RandomWalkTerm(
          AnisotropyTerm(
            GravityTerm(
              DensityTerm(FieldTerm(s.orientation, s, W.sources, W.heap, opts), s, W.grid, opts),
              s, opts),
            s, opts),
          opts, u1, u2, u3),
        s, opts))

\* the loop of step_simulation that re-orients every live tip, in tip order
RECURSIVE OrientTips(_, _, _, _, _)
OrientTips(W, tips, k, opts, npst) ==
    IF k > Len(tips) THEN W
    ELSE LET h == tips[k]
             o == OrientatorCompute(W.heap[h], W, opts,
                                    Draw(npst, W.np), Draw(npst, W.np + 1), Draw(npst, W.np + 2))
         IN  OrientTips([W EXCEPT !.heap[h].orientation = o,
                                  !.np = W.np + (IF opts.random_walk > 0 THEN 3 ELSE 0)],
                        tips, k + 1, opts, npst)

\* ------------------------------------------------ main.py: setup and stepping
\* cos and sin of theta = 2 pi u, u in tenths, in thousandths
CosTheta(u) ==
    LET t == <<1000, 809, 309, 0 - 309, 0 - 809, 0 - 1000, 0 - 809, 0 - 309, 309, 809>>
    IN  t[(u % 10) + 1]
SinTheta(u) ==
    LET t == <<0, 588, 951, 951, 588, 0, 0 - 588, 0 - 951, 0 - 951, 0 - 588>>
    IN  t[(u % 10) + 1]

\* round() of a value given in millionths
RoundUnits(v) == IF Abs(v) > 500000 THEN Sign(v) ELSE 0

\* random_point_on_sphere(radius = 1) of setup_simulation from the two
\* random.uniform draws: theta = 2 pi u1, cos(phi) = -1 + 2 u2
random_point_on_sphere(u1, u2) ==
    LET cphi == 2 * u2 - 10
        sphi == ISqrt((100 - cphi * cphi) * 10000)
    IN  << RoundUnits(sphi * CosTheta(u1)), RoundUnits(sphi * SinTheta(u1)),
           RoundUnits(cphi * 100000) >>

\* a Python process right after Mycel(opts) was constructed
NewProcess ==
    [heap |-> <<>>, mycel |-> NewMycel, sources |-> <<>>, grid |-> <<>>,
     np |-> 0, py |-> 0, components |-> FALSE, calls |-> 0]

\* the nutrient finders setup_simulation adds to the aggregator
NutrientFinders(opts) ==
    (IF opts.nutrient_attraction > 0
     THEN <<NutrientSource(<<30 * Scale, 30 * Scale, 0>>, opts.nutrient_attraction, 10, FALSE)>>
     ELSE <<>>)
    \o
    (IF opts.nutrient_repulsion > 0
     THEN <<NutrientSource(<<0 - 30 * Scale, 0 - 30 * Scale, 0>>, opts.nutrient_repulsion, 10, TRUE)>>
     ELSE <<>>)

\* setup_simulation after the seeding of the generators: the engine with its
\* one root, whose orientation takes two draws of Python's generator, and the
\* components
BuildSimulation(W, opts, pyst) ==
    [seed([W EXCEPT !.py = W.py + 2, !.mycel = NewMycel],
          <<0, 0, 0>>,
          scaleInt(random_point_on_sphere(Draw(pyst, W.py), Draw(pyst, W.py + 1)), Scale),
          opts.initial_color, opts)
       EXCEPT !.sources = NutrientFinders(opts), !.grid = <<>>, !.components = TRUE]

\* a faulty setup_simulation that leaves the generators as the process
\* started them
setup_simulation_unseeded(W, opts, pyst) == BuildSimulation(W, opts, pyst)

\* setup_simulation(opts): random.seed(opts.seed) and np.random.seed(opts.seed)
\* put both generators at the start of the streams of that seed
setup_simulation(W, opts, pyst) ==
    BuildSimulation([W EXCEPT !.np = 0, !.py = 0], opts, pyst)

\* FieldAggregator.add_sections(sections, strength = 1.0, decay = 1.5) after
\* aggregator.sources.clear()
RebuiltSources(W) ==
    [k \in 1..Len(W.mycel.sections) |-> SectSource(W.mycel.sections[k], 10, 15)]

\* a faulty rebuild that does not clear the sources first
RebuildAggregator_keep(W) == [W EXCEPT !.sources = W.sources \o RebuiltSources(W)]

\* step_simulation: aggregator.sources.clear() and add_sections(...)
RebuildAggregator(W) == [W EXCEPT !.sources = RebuiltSources(W)]

\* step_simulation: every live tip gets the orientation the Orientator computes
Reorient(W, opts, npst) == OrientTips(W, get_tips(W), 1, opts, npst)

\* step_simulation after mycel.step(): the density grid update and the call
\* of mycel.nutrient_kill_check, a method Mycel does not have
AfterStep(r, opts) ==
    IF r.raised THEN r
    ELSE [r EXCEPT !.W.grid = update_from_mycel(r.W),
                   !.raised = opts.use_nutrient_field /\ opts.nutrient_repulsion > 0]

\* step_simulation(mycel, components, step)
step_simulation(W, opts, npst, pyst) ==
    AfterStep(step(Reorient(RebuildAggregator(W), opts, npst), opts, npst, pyst), opts)

\* ------------------------------------------------ RuntimeMutator (runtime_mutator.py)
\* the new value of a mutation: mut.value itself, or mut.value(current) for a
\* callable, here the function that adds mut.value to the current value
MutationValue(mut, current) ==
    IF mut.callable THEN current + mut.value ELSE mut.value

\* a faulty apply that also replays the mutations of earlier steps
RECURSIVE apply_upto(_, _, _, _)
apply_upto(mutations, k, i, options) ==
    IF k > Len(mutations) THEN options
    ELSE IF mutations[k].step <= i
         THEN apply_upto(mutations, k + 1, i,
                         [options EXCEPT ![mutations[k].option] =
                             MutationValue(mutations[k], options[mutations[k].option])])
    ELSE apply_upto(mutations, k + 1, i, options)

\* RuntimeMutator.apply(step, options) with step = i: the loop over
\* self.mutations from its k-th entry on
RECURSIVE apply(_, _, _, _)
apply(mutations, k, i, options) ==
    IF k > Len(mutations) THEN options
    ELSE IF mutations[k].step = i
         THEN apply(mutations, k + 1, i,
                    [options EXCEPT ![mutations[k].option] =
                        MutationValue(mutations[k], options[mutations[k].option])])
    ELSE apply(mutations, k + 1, i, options)

\* the options after step_simulation(mycel, components, i) with result r:
\* mutator.apply(i, opts) runs unless an earlier statement raised
MutatorApplied(r, mutations, i, options) ==
    IF r.raised THEN options ELSE apply(mutations, 1, i, options)

\* ------------------------------------------------------------ configurations
CfgBranchy ==
    [BaseOptions EXCEPT !.branch_probability = 5, !.leading_branch_prob = 5,
                        !.max_supported_tips = 2, !.direction_memory_blend = 5]

CfgBoxed ==
    [BaseOptions EXCEPT !.volume_constraint = TRUE, !.curvature_branch_bias = 5,
                        !.random_walk = 5]

CfgAgeing ==
    [BaseOptions EXCEPT !.max_branches = 0, !.die_if_old = TRUE, !.max_age = 2,
                        !.length_scaled_growth = TRUE]

CfgColour ==
    [BaseOptions EXCEPT !.rgb_mutations_enabled = TRUE, !.max_length = 15,
                        !.max_branches = 1, !.max_supported_tips = 1,
                        !.branch_angle_spread = 180, !.autotropism = 10]

Configs == {BaseOptions, CfgBranchy, CfgBoxed, CfgAgeing, CfgColour}

\* arguments of direct Mycel.seed calls
SeedLocations == {<<0, 0, 0>>, <<Scale, 0, 0>>}
SeedOrientations == {<<Scale, 0, 0>>, <<0, 0, 0>>}

\* ------------------------------------------------------------ state
VARIABLES
    opts,       \* the Options object of the run
    npstream,   \* output stream of numpy's global generator for opts.seed
    pystream,   \* output stream of Python's random module for opts.seed
    proc,       \* the process running the engine
    procB,      \* a second, independent process with the same seed and options
    last,       \* the last call made on proc: its name, target, result, the state
                \* before it and, for a step, the state its prune pass started from
    got,        \* the lists get_tips() returned to the caller since the last call
                \* that changed proc, oldest first
    sim,        \* the call of simulate(opts, steps) in proc: where it stands, its
                \* argument steps and its loop variable step
    mutator     \* the mutations scheduled on the RuntimeMutator of proc, in
                \* scheduling order

vars == <<opts, npstream, pystream, proc, procB, last, got, sim, mutator>>

\* no call of simulate() is under way
NoSimulate == [pc |-> "idle", steps |-> 0, step |-> 0]

PyStreamLen == 2

Init ==
    /\ opts \in Configs
    /\ npstream \in Streams
    /\ pystream \in [1..PyStreamLen -> UVals]
    /\ proc = NewProcess
    /\ procB = NewProcess
    /\ last = [op |-> "init", h |-> 0, child |-> NoChild, raised |-> FALSE,
               pre |-> NewProcess, before_prune |-> NewProcess]
    /\ got = <<>>
    /\ sim = NoSimulate
    /\ mutator = <<>>

\* what a call that works on proc leaves alone; the lists handed out earlier
\* are no longer compared
StaticButOptions == UNCHANGED <<npstream, pystream, procB, sim, mutator>> /\ got' = <<>>

Static == StaticButOptions /\ UNCHANGED opts

\* a call on proc that is counted against MaxSteps and grows the heap within MaxSections
Bounded(W) == Len(W.heap) <= MaxSections

Called(W) == [W EXCEPT !.calls = W.calls + 1]

\* main.setup_simulation(opts) in a fresh process
SetupSimulation ==
    /\ proc.heap = <<>> /\ ~proc.components /\ proc.calls = 0
    /\ proc' = setup_simulation(proc, opts, pystream)
    /\ last' = [op |-> "setup", h |-> 1, child |-> NoChild, raised |-> FALSE,
                pre |-> proc, before_prune |-> proc]
    /\ Static

\* Mycel.seed(location, orientation) called directly on a Mycel built by hand,
\* before its first step
Seed ==
    /\ ~proc.components /\ proc.calls = 0
    /\ Len(proc.mycel.sections) < MaxSeeds
    /\ Len(proc.heap) < MaxSections
    /\ \E loc \in SeedLocations, ori \in SeedOrientations :
          proc' = seed(proc, loc, ori, <<>>, opts)
    /\ last' = [op |-> "seed", h |-> Len(proc.heap) + 1, child |-> NoChild,
                raised |-> FALSE, pre |-> proc, before_prune |-> proc]
    /\ Static

\* the effect on proc of a stepping call with result r
Stepped(op, r) ==
    /\ Bounded(Called(r.W))
    /\ proc' = Called(r.W)
    /\ last' = [op |-> op, h |-> 0, child |-> NoChild, raised |-> r.raised, pre |-> proc,
                before_prune |-> r.before_prune]
    /\ Static

\* Mycel.step() called directly
Step ==
    /\ proc.calls < MaxSteps
    /\ Stepped("step", step(proc, opts, npstream, pystream))

\* the effect of step_simulation(mycel, components, step) with result r
SteppedSimulation(r, i) ==
    /\ Bounded(Called(r.W))
    /\ proc' = Called(r.W)
    /\ last' = [op |-> "step_simulation", h |-> 0, child |-> NoChild, raised |-> r.raised,
                pre |-> proc, before_prune |-> r.before_prune]
    /\ opts' = MutatorApplied(r, mutator, i, opts)
    /\ StaticButOptions

\* main.step_simulation(mycel, components, step), called by a client that
\* counts its calls from 0 as simulate() does
StepSimulation ==
    /\ proc.components /\ proc.calls < MaxSteps
    /\ SteppedSimulation(step_simulation(proc, opts, npstream, pystream), proc.calls)

Next == SetupSimulation \/ Seed \/ Step \/ StepSimulation

Spec == Init /\ [][Next]_vars

\* ------------------------------------------------ direct calls on Section objects
\* section.grow(opts.growth_rate, opts.time_step) called directly on the
\* object at heap index h
GrowCall ==
    /\ proc.calls < MaxSteps
    /\ \E h \in 1..Len(proc.heap) :
          /\ proc' = Called([proc EXCEPT !.heap[h] =
                                grow(proc.heap[h], opts.growth_rate, opts.time_step, opts)])
          /\ last' = [op |-> "grow", h |-> h, child |-> NoChild, raised |-> FALSE,
                      pre |-> proc, before_prune |-> proc]
    /\ Static

\* the effect on proc of a maybe_branch call on h with result r
Branched(h, r) ==
    /\ Bounded(r.W)
    /\ proc' = Called(r.W)
    /\ last' = [op |-> "maybe_branch", h |-> h, child |-> r.child, raised |-> r.raised,
                pre |-> proc, before_prune |-> proc]

\* section.maybe_branch(opts.branch_probability) called directly on the object
\* at heap index h; the caller keeps the returned child to itself
MaybeBranchCall ==
    /\ proc.calls < MaxSteps
    /\ \E h \in 1..Len(proc.heap) :
          Branched(h, maybe_branch(proc, h, opts.branch_probability, opts, npstream, pystream))
    /\ Static

\* ------------------------------------------------ a second run, in its own process
\* the states the generators of a fresh process can start in
Entropy == 0..(StreamLen - 1)

\* main.setup_simulation(opts) in the second process
SetupSimulationB ==
    /\ procB.heap = <<>> /\ ~procB.components /\ procB.calls = 0
    /\ \E e \in Entropy :
          procB' = setup_simulation([NewProcess EXCEPT !.np = e, !.py = e], opts, pystream)
    /\ UNCHANGED <<opts, npstream, pystream, proc, last, got, sim, mutator>>

\* main.step_simulation(mycel, components, step) in the second process
SteppedB(r) ==
    /\ Bounded(r.W)
    /\ procB' = Called(r.W)
    /\ UNCHANGED <<opts, npstream, pystream, proc, last, got, sim, mutator>>

StepSimulationB ==
    /\ procB.components /\ procB.calls < MaxSteps
    /\ SteppedB(step_simulation(procB, opts, npstream, pystream))

NextDet == SetupSimulation \/ StepSimulation \/ SetupSimulationB \/ StepSimulationB

SpecDet == Init /\ [][NextDet]_vars

NextAPI == Seed \/ Step \/ GrowCall \/ MaybeBranchCall

SpecAPI == Init /\ [][NextAPI]_vars

\* ------------------------------------------------ seeds along the other axes
AxisOrientations == {<<0, 0, Scale>>, <<0, Scale, 0>>}

\* Mycel.seed(location, orientation) with an orientation along +z or +y
SeedAxis ==
    /\ ~proc.components /\ proc.calls = 0
    /\ Len(proc.mycel.sections) < MaxSeeds
    /\ Len(proc.heap) < MaxSections
    /\ \E loc \in SeedLocations, ori \in AxisOrientations :
          proc' = seed(proc, loc, ori, <<>>, opts)
    /\ last' = [op |-> "seed", h |-> Len(proc.heap) + 1, child |-> NoChild,
                raised |-> FALSE, pre |-> proc, before_prune |-> proc]
    /\ Static

NextGrow == SeedAxis \/ GrowCall

SpecGrow == Init /\ [][NextGrow]_vars

\* ------------------------------------------------ an engine wired up by hand
\* tips need neighbours within three units and live for one time step
CfgSupport ==
    [BaseOptions EXCEPT !.neighbour_radius = 3 * Scale, !.min_supported_tips = 1,
                        !.die_if_old = TRUE, !.max_age = 1,
                        !.branch_probability = 5, !.max_branches = 1]

\* the master switch of branching turned off
CfgNoMaster == [BaseOptions EXCEPT !.branching_master = FALSE]

\* secondary branching turned off
CfgNoSecondary == [BaseOptions EXCEPT !.secondary_branching = FALSE]

HarnessConfigs == {CfgSupport, CfgNoMaster, CfgNoSecondary}

InitHarness ==
    /\ opts \in HarnessConfigs
    /\ npstream \in Streams
    /\ pystream \in [1..PyStreamLen -> UVals]
    /\ proc = NewProcess
    /\ procB = NewProcess
    /\ last = [op |-> "init", h |-> 0, child |-> NoChild, raised |-> FALSE,
               pre |-> NewProcess, before_prune |-> NewProcess]
    /\ got = <<>>
    /\ sim = NoSimulate
    /\ mutator = <<>>

\* section.set_field_aggregator(aggregator) called on the object at heap index
\* h before the first step, the aggregator being one FieldAggregator that was
\* given the options
SetFieldAggregator ==
    /\ proc.calls = 0
    /\ \E h \in 1..Len(proc.heap) :
          /\ ~proc.heap[h].field_aggregator
          /\ proc' = [proc EXCEPT !.heap[h].field_aggregator = TRUE]
          /\ last' = [op |-> "set_field_aggregator", h |-> h, child |-> NoChild,
                      raised |-> FALSE, pre |-> proc, before_prune |-> proc]
    /\ Static

\* aggregator.add_sections(mycel.get_all_segments()) on that aggregator while
\* it is empty, with the default strength and decay
AddSections ==
    /\ proc.calls = 0
    /\ proc.mycel.sections # <<>>
    /\ proc.sources = <<>>
    /\ proc' = [proc EXCEPT !.sources =
                   proc.sources \o [k \in 1..Len(proc.mycel.sections) |->
                                       SectSource(proc.mycel.sections[k], 10, 10)]]
    /\ last' = [op |-> "add_sections", h |-> 0, child |-> NoChild,
                raised |-> FALSE, pre |-> proc, before_prune |-> proc]
    /\ Static

NextHarness == Seed \/ SetFieldAggregator \/ AddSections \/ Step \/ MaybeBranchCall

SpecHarness == InitHarness /\ [][NextHarness]_vars

\* ------------------------------------------------ main.simulate(opts, steps)
\* every tip dies of age in its second step
CfgShort ==
    [BaseOptions EXCEPT !.max_branches = 0, !.die_if_old = TRUE, !.max_age = 1]

\* a global bias that points against the +x axis with full strength
CfgCancel ==
    [CfgShort EXCEPT !.anisotropy_enabled = TRUE, !.anisotropy_vector = <<0 - 1, 0, 0>>,
                     !.anisotropy_strength = 10]

\* the density kill switched on
CfgDense == [CfgShort EXCEPT !.die_if_too_dense = TRUE]

\* a nutrient attractor in the field
CfgNutrient == [CfgShort EXCEPT !.nutrient_attraction = 10]

SimConfigs == {CfgShort, CfgColour, CfgCancel, CfgDense, CfgNutrient}

InitSim ==
    /\ opts \in SimConfigs
    /\ npstream \in Streams
    /\ pystream \in [1..PyStreamLen -> UVals]
    /\ proc = NewProcess
    /\ procB = NewProcess
    /\ last = [op |-> "init", h |-> 0, child |-> NoChild, raised |-> FALSE,
               pre |-> NewProcess, before_prune |-> NewProcess]
    /\ got = <<>>
    /\ sim = NoSimulate
    /\ mutator = <<>>

\* a faulty AutoStop.check that never asks for a stop
AutoStopCheck_never(W) == FALSE

\* AutoStop(enabled = True).check(mycel, step): stop when no live tip is left
AutoStopCheck(W) == Len(get_tips(W)) = 0

\* where simulate() stands after the loop head `for step in range(steps)` has
\* been asked for the value i
LoopHead(steps, i) ==
    [pc |-> IF i < steps THEN "loop" ELSE "outputs", steps |-> steps, step |-> i]

\* where simulate() stands after step_simulation(mycel, components, step) has
\* come back with result r: an exception leaves simulate(), a stop request
\* breaks the loop, otherwise the loop goes on
AfterSimulationStep(r) ==
    IF r.raised THEN [sim EXCEPT !.pc = "raised"]
    ELSE IF AutoStopCheck(r.W) THEN [sim EXCEPT !.pc = "outputs"]
    ELSE LoopHead(sim.steps, sim.step + 1)

\* simulate(opts, steps) is called in a fresh process: setup_simulation(opts)
SimulateStart ==
    /\ sim.pc = "idle" /\ proc.heap = <<>> /\ proc.calls = 0
    /\ \E steps \in 0..MaxSteps : sim' = LoopHead(steps, 0)
    /\ proc' = setup_simulation(proc, opts, pystream)
    /\ last' = [op |-> "setup", h |-> 1, child |-> NoChild, raised |-> FALSE,
                pre |-> proc, before_prune |-> proc]
    /\ UNCHANGED <<opts, npstream, pystream, procB, mutator>> /\ got' = <<>>

\* the effect of one pass of the loop of simulate() whose step_simulation
\* call has result r
SimulationStepped(r) ==
    /\ Bounded(r.W)
    /\ proc' = Called(r.W)
    /\ sim' = AfterSimulationStep(r)
    /\ last' = [op |-> "step_simulation", h |-> 0, child |-> NoChild, raised |-> r.raised,
                pre |-> proc, before_prune |-> r.before_prune]
    /\ opts' = MutatorApplied(r, mutator, sim.step, opts)
    /\ UNCHANGED <<npstream, pystream, procB, mutator>> /\ got' = <<>>

\* one pass of the loop of simulate(): step_simulation and the AutoStop check
SimulateStep ==
    /\ sim.pc = "loop"
    /\ SimulationStepped(step_simulation(proc, opts, npstream, pystream))

\* KeyboardInterrupt reaches simulate() between two passes of its loop
Interrupt ==
    /\ sim.pc = "loop"
    /\ sim' = [sim EXCEPT !.pc = "outputs"]
    /\ UNCHANGED <<opts, npstream, pystream, proc, procB, last, got, mutator>>

\* simulate() after its loop: generate_outputs, which reads the engine, and
\* the return
GenerateOutputs ==
    /\ sim.pc = "outputs"
    /\ sim' = [sim EXCEPT !.pc = "done"]
    /\ UNCHANGED <<opts, npstream, pystream, proc, procB, last, got, mutator>>

NextSim == SimulateStart \/ SimulateStep \/ Interrupt \/ GenerateOutputs

\* the statements of simulate() itself
SimulateRuns == SimulateStart \/ SimulateStep \/ GenerateOutputs

\* simulate() has a next statement to run: the enabling condition of
\* SimulateRuns, that is ENABLED <<SimulateRuns>>_vars written out
Runnable ==
    \/ sim.pc = "idle" /\ proc.heap = <<>> /\ proc.calls = 0
    \/ sim.pc = "loop" /\ Bounded(step_simulation(proc, opts, npstream, pystream).W)
    \/ sim.pc = "outputs"

\* The interpreter keeps running simulate() as long as it has a next
\* statement; an interrupt may or may not come. This is WF_vars(SimulateRuns)
\* with its ENABLED written out as Runnable.
SpecSim ==
    InitSim /\ [][NextSim]_vars /\ ([]<>(~Runnable) \/ []<><<SimulateRuns>>_vars)

\* ------------------------------------------------ reads between the steps
\* mycel.get_tips() called by the client, which keeps the returned list
GetTipsCall ==
    /\ Len(got) < MaxReads
    /\ got' = Append(got, get_tips(proc))
    /\ UNCHANGED <<opts, npstream, pystream, proc, procB, last, sim, mutator>>

NextRead == SetupSimulation \/ Seed \/ Step \/ StepSimulation \/ GetTipsCall

SpecRead == Init /\ [][NextRead]_vars

\* ------------------------------------------------ mutations scheduled by the client
MaxMutations == 2

\* the mutations a client schedules: a new growth rate, a growth rate raised
\* by a callable, and branching switched off
MutationChoices ==
    { [option |-> "growth_rate", value |-> 2, callable |-> FALSE],
      [option |-> "growth_rate", value |-> 1, callable |-> TRUE],
      [option |-> "branch_probability", value |-> 0, callable |-> FALSE] }

\* components["mutator"].schedule(step, option, value) before the first step
Schedule ==
    /\ proc.components /\ proc.calls = 0
    /\ Len(mutator) < MaxMutations
    /\ \E i \in 0..(MaxSteps - 1), m \in MutationChoices :
          mutator' = Append(mutator, [step |-> i, option |-> m.option, value |-> m.value,
                                      callable |-> m.callable])
    /\ last' = [op |-> "schedule", h |-> 0, child |-> NoChild, raised |-> FALSE,
                pre |-> proc, before_prune |-> proc]
    /\ UNCHANGED <<opts, npstream, pystream, proc, procB, sim>> /\ got' = <<>>

MutatorConfigs == {BaseOptions, CfgColour}

InitMutator ==
    /\ opts \in MutatorConfigs
    /\ npstream \in Streams
    /\ pystream \in [1..PyStreamLen -> UVals]
    /\ proc = NewProcess
    /\ procB = NewProcess
    /\ last = [op |-> "init", h |-> 0, child |-> NoChild, raised |-> FALSE,
               pre |-> NewProcess, before_prune |-> NewProcess]
    /\ got = <<>>
    /\ sim = NoSimulate
    /\ mutator = <<>>

NextMutator == SetupSimulation \/ Schedule \/ StepSimulation \/ Step

SpecMutator == InitMutator /\ [][NextMutator]_vars

\* ------------------------------------------------------------ properties
\* the last call on proc was a step() or step_simulation() that returned
StepReturned == last.op \in {"step", "step_simulation"} /\ ~last.raised

\* C1: across seed(), step() and the orientation updates of step_simulation,
\* every segment that is dead stays dead and every segment that is not a tip
\* stays not a tip.
C1_Monotonic ==
    [][ /\ Len(proc'.heap) >= Len(proc.heap)
        /\ \A h \in 1..Len(proc.heap) :
              /\ proc.heap[h].is_dead => proc'.heap[h].is_dead
              /\ ~proc.heap[h].is_tip => ~proc'.heap[h].is_tip ]_vars

\* a step has run over a segment that was already dead and over a live one
\* that was no longer a tip
C1_Witness ==
    /\ StepReturned
    /\ \E h \in 1..Len(last.pre.heap) : last.pre.heap[h].is_dead
    /\ \E h \in 1..Len(last.pre.heap) :
          ~last.pre.heap[h].is_tip /\ ~last.pre.heap[h].is_dead

\* C2: in every reachable state every segment has branches_made at most the
\* configured max_branches, and with max_branches = 0 no segment has a child.
C2_MaxBranches ==
    \A h \in 1..Len(proc.heap) :
        /\ proc.heap[h].branches_made <= opts.max_branches
        /\ opts.max_branches = 0 =>
              proc.heap[h].children = <<>> /\ proc.heap[h].parent = 0

\* a step has run over a segment that had used up its branches and that came
\* out of the step a live tip, with a branch probability of one
C2_Witness ==
    /\ StepReturned
    /\ opts.branch_probability = 10
    /\ \E h \in 1..Len(last.pre.heap) :
          /\ last.pre.heap[h].branches_made = opts.max_branches
          /\ IsLiveTip(proc.heap[h])

\* the fields of a section that grow() and maybe_branch() write
SameGrowth(s, t) ==
    /\ s.end = t.end /\ s.length = t.length /\ s.age = t.age
    /\ s.subsegments = t.subsegments

\* C3: for a dead segment grow() changes none of end, length, age and the
\* sub-segment record; maybe_branch() returns None and changes neither the
\* children list nor branches_made; get_tips() never contains it.
C3_DeadIsInert ==
    /\ (last.op = "grow" /\ last.pre.heap[last.h].is_dead)
          => SameGrowth(proc.heap[last.h], last.pre.heap[last.h])
    /\ (last.op = "maybe_branch" /\ last.pre.heap[last.h].is_dead)
          => /\ last.child = NoChild
             /\ Len(proc.heap) = Len(last.pre.heap)
             /\ proc.heap[last.h].children = last.pre.heap[last.h].children
             /\ proc.heap[last.h].branches_made = last.pre.heap[last.h].branches_made
    /\ \A j \in 1..Len(get_tips(proc)) : ~proc.heap[get_tips(proc)[j]].is_dead

\* maybe_branch() has been called on a dead segment that is still a tip and
\* has branches left, in a mycelium that holds another dead segment
C3_Witness ==
    /\ last.op = "maybe_branch"
    /\ last.pre.heap[last.h].is_dead /\ last.pre.heap[last.h].is_tip
    /\ last.pre.heap[last.h].branches_made < opts.max_branches
    /\ \E j \in 1..Len(proc.mycel.sections) : proc.heap[proc.mycel.sections[j]].is_dead

\* the sections of the collection, as objects
SectionsOf(W) == [j \in 1..Len(W.mycel.sections) |-> W.heap[W.mycel.sections[j]]]

\* C4: at the end of every step() every segment of the collection has length
\* equal to the distance between its start and its end, clamped ones included.
C4_LengthIsDistance ==
    StepReturned =>
        \A j \in 1..Len(proc.mycel.sections) :
            SectionsOf(proc)[j].length
                = distance_to(SectionsOf(proc)[j].start, SectionsOf(proc)[j].end)

\* a step has ended in which one segment was clamped and another was created,
\* over a mycelium that holds a dead segment
C4_Witness ==
    /\ StepReturned
    /\ \E h \in 1..Len(last.pre.heap) : last.pre.heap[h].is_tip /\ ~proc.heap[h].is_tip
    /\ \E h \in 1..Len(last.pre.heap) : last.pre.heap[h].is_dead
    /\ Len(proc.mycel.sections) > Len(last.pre.mycel.sections)

\* the elements of a sequence
Range(seq) == {seq[j] : j \in 1..Len(seq)}

\* C5: when max_supported_tips = N > 0 and more than N tips are live at the
\* prune pass of step(), exactly N live tips remain after it, each of them was
\* a live tip before it, and the pass changes only the is_dead flag of the
\* pruned tips.
C5_PruneExact ==
    (/\ StepReturned
     /\ opts.max_supported_tips > 0
     /\ Len(get_tips(last.before_prune)) > opts.max_supported_tips)
    => /\ Len(get_tips(proc)) = opts.max_supported_tips
       /\ Range(get_tips(proc)) \subseteq Range(get_tips(last.before_prune))
       /\ Len(proc.heap) = Len(last.before_prune.heap)
       /\ \A h \in 1..Len(proc.heap) :
             /\ [proc.heap[h] EXCEPT !.is_dead = last.before_prune.heap[h].is_dead]
                    = last.before_prune.heap[h]
             /\ proc.heap[h].is_dead # last.before_prune.heap[h].is_dead
                    => IsLiveTip(last.before_prune.heap[h])
       /\ proc.mycel.sections = last.before_prune.mycel.sections
       /\ proc.mycel.time = last.before_prune.mycel.time
       /\ proc.mycel.time_series = last.before_prune.mycel.time_series

\* a prune pass has had to remove at least two tips
C5_Witness ==
    /\ StepReturned
    /\ opts.max_supported_tips > 0
    /\ Len(get_tips(last.before_prune)) >= opts.max_supported_tips + 2

\* the end point grow() computes before the volume constraint looks at it
GrownEnd(s) ==
    add(s.end, scale(s.orientation, GrowthDistance(s, opts.growth_rate, opts.time_step, opts), Scale))

\* the coordinate c put on the bound it crossed, if it crossed one
OnBound(c, lo, hi) == IF c < lo THEN lo ELSE IF c > hi THEN hi ELSE c

\* C6: with the volume constraint on, a grow() call that would move the end
\* out of the box sets every out-of-range coordinate to the bound it crossed,
\* keeps the others as grown and clears is_tip in that call; every later
\* grow() call leaves the end where it is.
C6_ClampAndStop ==
    /\ (/\ last.op = "grow"
        /\ opts.volume_constraint
        /\ IsLiveTip(last.pre.heap[last.h])
        /\ OutOfBounds(GrownEnd(last.pre.heap[last.h]), opts))
       => /\ proc.heap[last.h].end[1]
                = OnBound(GrownEnd(last.pre.heap[last.h])[1], opts.x_min, opts.x_max)
          /\ proc.heap[last.h].end[2]
                = OnBound(GrownEnd(last.pre.heap[last.h])[2], opts.y_min, opts.y_max)
          /\ proc.heap[last.h].end[3]
                = OnBound(GrownEnd(last.pre.heap[last.h])[3], opts.z_min, opts.z_max)
          /\ ~proc.heap[last.h].is_tip
    /\ (last.op = "grow" /\ ~last.pre.heap[last.h].is_tip)
       => /\ proc.heap[last.h].end = last.pre.heap[last.h].end
          /\ ~proc.heap[last.h].is_tip

\* grow() has been called on a live segment that an earlier grow() had clamped
\* on a face of the box
C6_Witness ==
    /\ last.op = "grow"
    /\ opts.volume_constraint
    /\ ~last.pre.heap[last.h].is_tip /\ ~last.pre.heap[last.h].is_dead
    /\ \E c \in 1..3 : Abs(last.pre.heap[last.h].end[c]) = opts.x_max

\* C7: a segment created by the branch pass of a step() is not grown, aged or
\* death-checked in that step: at the end of the step it has end = start,
\* length 0 and age 0, and if it is dead the prune pass killed it.
C7_ChildUntouched ==
    StepReturned =>
        \A h \in (Len(last.pre.heap) + 1)..Len(proc.heap) :
            /\ proc.heap[h].end = proc.heap[h].start
            /\ proc.heap[h].length = 0
            /\ proc.heap[h].age = 0
            /\ proc.heap[h].is_dead => IsLiveTip(last.before_prune.heap[h])

\* a step has ended that created two segments, one of them killed by its
\* prune pass
C7_Witness ==
    /\ StepReturned
    /\ Len(proc.heap) >= Len(last.pre.heap) + 2
    /\ \E h \in (Len(last.pre.heap) + 1)..Len(proc.heap) : proc.heap[h].is_dead
    /\ \E h \in (Len(last.pre.heap) + 1)..Len(proc.heap) : ~proc.heap[h].is_dead

\* is the sequence a a prefix of the sequence b
IsPrefix(a, b) == Len(a) <= Len(b) /\ SubSeq(b, 1, Len(a)) = a

\* C8: the segment collection is append-only: across every step() the
\* sequence before the step is a prefix of the sequence after it, and
\* get_all_segments() returns that sequence, in creation order.
C8_AppendOnly ==
    /\ last.op \in {"step", "step_simulation"}
          => IsPrefix(last.pre.mycel.sections, proc.mycel.sections)
    /\ get_all_segments(proc) = proc.mycel.sections
    /\ \A j, k \in 1..Len(get_all_segments(proc)) :
          j < k => proc.heap[get_all_segments(proc)[j]].id < proc.heap[get_all_segments(proc)[k]].id

\* a step has appended a segment to a collection that held a dead one
C8_Witness ==
    /\ StepReturned
    /\ Len(proc.mycel.sections) > Len(last.pre.mycel.sections)
    /\ \E j \in 1..Len(last.pre.mycel.sections) :
          last.pre.heap[last.pre.mycel.sections[j]].is_dead

\* the summed length of the segments in ids that are not dead
RECURSIVE LivingLength(_, _)
LivingLength(W, ids) ==
    IF ids = <<>> THEN 0
    ELSE (IF W.heap[Head(ids)].is_dead THEN 0 ELSE W.heap[Head(ids)].length)
         + LivingLength(W, Tail(ids))

\* C9: after n calls of step() biomass_history has exactly n entries, and
\* entry k is the summed length of the segments not dead at the end of step k.
C9_BiomassHistory ==
    /\ Len(proc.mycel.biomass_history) = proc.calls
    /\ last.op \in {"step", "step_simulation"}
          => /\ IsPrefix(last.pre.mycel.biomass_history, proc.mycel.biomass_history)
             /\ proc.mycel.biomass_history[proc.calls]
                    = LivingLength(proc, proc.mycel.sections)

PosIn(seq, x) == CHOOSE k \in 1..Len(seq) : seq[k] = x

\* is lst the segments of the collection that are tips and not dead, each
\* once, in the order of the collection
IsLiveTipList(lst, W) ==
    /\ Range(lst) = {h \in Range(W.mycel.sections) : W.heap[h].is_tip /\ ~W.heap[h].is_dead}
    /\ \A a, b \in 1..Len(lst) :
          a < b => PosIn(W.mycel.sections, lst[a]) < PosIn(W.mycel.sections, lst[b])

AtDeathPass ==
    [last.pre EXCEPT !.heap = GrowPass(last.pre.heap, last.pre.mycel.sections, 1, opts)]

\* C12: within one death pass of step() the neighbour-support count of every
\* tip is taken against the tips alive when the pass started: a tip is dead
\* after the pass exactly if the destructor checks, evaluated on the state at
\* the start of the pass, kill it.
C12_SupportSnapshot ==
    (last.op = "step" /\ ~last.raised)
    => \A j \in 1..Len(get_tips(AtDeathPass)) :
          last.before_prune.heap[get_tips(AtDeathPass)[j]].is_dead
             <=> (DeathVerdict(AtDeathPass, get_tips(AtDeathPass)[j], opts) = "dead")

\* C13: when Orientator.compute(segment) queries the field aggregator at the
\* segment's end, the source built from that same segment is excluded from
\* the sum: the query of every tip returns what the aggregator returns with
\* the tip's own source left out.
C13_OwnSourceExcluded ==
    last.op = "step_simulation"
    => \A j \in 1..Len(get_tips(last.pre)) :
          AggregatorQuery(last.pre.heap[get_tips(last.pre)[j]], proc.sources, last.pre.heap, opts)
             = compute_field(proc.sources, last.pre.heap,
                             last.pre.heap[get_tips(last.pre)[j]].end,
                             {get_tips(last.pre)[j]}, opts)

\* C14: while the master switch of branching is off, maybe_branch() returns
\* None for every segment and step() adds no segment to the collection.
C14_MasterSwitch ==
    ~opts.branching_master
    => /\ last.op = "maybe_branch" => last.child = NoChild
       /\ last.op = "step" => proc.mycel.sections = last.pre.mycel.sections

\* C15: while secondary branching is off, maybe_branch() returns None for
\* every segment that already has a child, so no segment ever has more than
\* one child.
C15_SecondaryBranching ==
    ~opts.secondary_branching
    => /\ (last.op = "maybe_branch" /\ last.pre.heap[last.h].children # <<>>)
             => last.child = NoChild
       /\ \A h \in 1..Len(proc.heap) : Len(proc.heap[h].children) <= 1

\* C16: simulate(opts, steps) always terminates, it performs at most `steps`
\* step_simulation calls, and it performs no further step after the first
\* completed step that leaves zero live tips.
C16_Terminates ==
    /\ <>(sim.pc \in {"done", "raised"})
    /\ [](proc.calls <= sim.steps)
    /\ [][proc'.calls > proc.calls
             => (proc.calls = 0 \/ (~last.raised /\ Len(get_tips(proc)) > 0))]_vars

\* simulate() has returned after fewer than `steps` steps, stopped by the
\* step that left no live tip
C16_Witness ==
    /\ sim.pc = "done"
    /\ proc.calls >= 2 /\ proc.calls < sim.steps
    /\ last.op = "step_simulation" /\ ~last.raised
    /\ Len(get_tips(proc)) = 0
    /\ Len(get_tips(last.pre)) > 0

\* the sources of the aggregator that were built from the segment h
SourcesOf(W, h) == {k \in 1..Len(W.sources) : W.sources[k].kind = "sect" /\ W.sources[k].section = h}

IsUnit(v) == Abs(norm(v) - Scale) <= 1

\* C18: in every reachable state every segment's orientation and
\* direction_memory are unit-length vectors, also after an Orientator.compute()
\* whose contributions cancel exactly.
C18_UnitVectors ==
    \A h \in 1..Len(proc.heap) :
        IsUnit(proc.heap[h].orientation) /\ IsUnit(proc.heap[h].direction_memory)

\* the aggregated field value at the end of the section at heap index h, as
\* the death pass of the step that just returned read it
FieldAtEnd(h) == compute_field(proc.sources, proc.heap, proc.heap[h].end, {}, opts)

\* C19: after a step_simulation() of a simulation set up by setup_simulation()
\* with die_if_too_dense enabled, a section that entered the step as a live tip
\* and whose aggregated field value at its end exceeds density_threshold is dead.
C19_DensityKill ==
    (StepReturned /\ last.op = "step_simulation" /\ opts.die_if_too_dense)
        => \A h \in 1..Len(last.pre.heap) :
               (/\ IsLiveTip(last.pre.heap[h])
                /\ ~FieldAtEnd(h).raised
                /\ FieldAtEnd(h).field > opts.density_threshold)
                   => proc.heap[h].is_dead

SnapshotEnds(snap) == {<<snap[j].x, snap[j].y, snap[j].z>> : j \in 1..Len(snap)}

C22_LimitsEnforced ==
    StepReturned =>
        \A k \in 1..Len(proc.mycel.sections) :
            LET s == proc.heap[proc.mycel.sections[k]]
            IN  /\ IsLiveTip(s) => /\ s.length <= opts.max_length
                                   /\ opts.die_if_old => s.age <= opts.max_age
                /\ (/\ k <= Len(last.pre.mycel.sections)
                    /\ IsLiveTip(last.pre.heap[proc.mycel.sections[k]])
                    /\ s.is_tip
                    /\ \/ s.length > opts.max_length
                       \/ opts.die_if_old /\ s.age > opts.max_age)
                       => s.is_dead

\* a tip that entered the step alive and within the limits, grew past
\* max_length in it and is dead at its end
C22_Witness ==
    /\ StepReturned
    /\ \E h \in 1..Len(last.pre.heap) :
          /\ IsLiveTip(last.pre.heap[h])
          /\ last.pre.heap[h].length <= opts.max_length
          /\ proc.heap[h].length > opts.max_length
          /\ proc.heap[h].is_dead

\* C23: at the end of every step() every non-dead segment that was in the
\* collection when the step started has a length of at least the threshold of
\* update(); a segment shorter than that after growing is marked dead in the
\* grow pass.
C23_NoStubSegments ==
    StepReturned =>
        \A k \in 1..Len(last.pre.mycel.sections) :
            LET s == proc.heap[last.pre.mycel.sections[k]]
            IN  /\ ~s.is_dead => s.length >= LengthEps
                /\ distance_to(s.start, s.end) < LengthEps => s.is_dead

\* a segment with a zero orientation entered the step alive, did not move in
\* the grow pass and is dead at the end of the step
C23_Witness ==
    /\ StepReturned
    /\ \E k \in 1..Len(last.pre.mycel.sections) :
          LET h == last.pre.mycel.sections[k]
          IN  /\ ~last.pre.heap[h].is_dead
              /\ last.pre.heap[h].orientation = ZeroVec
              /\ proc.heap[h].end = proc.heap[h].start
              /\ proc.heap[h].is_dead

\* C24: in every state reached by steps, branches_made of every segment is the
\* number of entries of its children list, every child's parent is that
\* segment, every child starts where its parent's end was when it branched,
\* and at the end of each step every child is in the engine's collection
\* after its parent.
C24_Bookkeeping ==
    \A h \in 1..Len(proc.heap) :
        LET s == proc.heap[h]
        IN  /\ s.branches_made = Len(s.children)
            /\ \A i \in 1..Len(s.children) :
                  LET c == s.children[i]
                  IN  /\ c \in 1..Len(proc.heap)
                      /\ proc.heap[c].parent = h
                      /\ \E j \in 1..Len(s.subsegments) : s.subsegments[j][2] = proc.heap[c].start
                      /\ (StepReturned /\ c > Len(last.pre.heap)) => proc.heap[c].start = s.end
                      /\ (StepReturned \/ last.op \in {"seed", "setup"}) =>
                            /\ c \in Range(proc.mycel.sections)
                            /\ h \in Range(proc.mycel.sections)
                            /\ PosIn(proc.mycel.sections, h) < PosIn(proc.mycel.sections, c)

\* a parent with two children, the first of which was born in an earlier step
\* at a point the parent has since grown away from
C24_Witness ==
    /\ StepReturned
    /\ \E h \in 1..Len(proc.heap) :
          /\ Len(proc.heap[h].children) = 2
          /\ proc.heap[h].children[1] <= Len(last.pre.heap)
          /\ proc.heap[h].children[2] > Len(last.pre.heap)
          /\ proc.heap[proc.heap[h].children[1]].start # proc.heap[h].end

\* the branch direction the maybe_branch() call that just returned computed
\* from the parent as it was before the call
NewDirection ==
    BranchDirection(last.pre.heap[last.h],
                    UniformAngle(Draw(npstream, last.pre.np + 1), opts.branch_angle_spread), opts)

\* the uniform draw of that call that decides who leads
LeadingDraw == Draw(npstream, last.pre.np + 2)

\* C25: on every successful maybe_branch() the child takes the new branch
\* direction and the parent keeps its own orientation when the uniform draw is
\* below leading_branch_prob; otherwise the parent takes the new direction and
\* the child the parent's old one.
C25_LeadingBranch ==
    (last.op = "maybe_branch" /\ last.child # NoChild) =>
        IF LeadingDraw < opts.leading_branch_prob
        THEN /\ proc.heap[last.child].orientation = NewDirection
             /\ proc.heap[last.h].orientation = last.pre.heap[last.h].orientation
        ELSE /\ proc.heap[last.h].orientation = NewDirection
             /\ proc.heap[last.child].orientation = last.pre.heap[last.h].orientation

\* a successful maybe_branch() whose draw was below leading_branch_prob and whose
\* new direction differs from the parent's orientation
C25_Witness ==
    /\ last.op = "maybe_branch" /\ last.child # NoChild
    /\ LeadingDraw < opts.leading_branch_prob
    /\ NewDirection # last.pre.heap[last.h].orientation
    /\ proc.heap[last.child].orientation = NewDirection

\* the options after the mutations of seq have been applied one by one, first
\* to last
RECURSIVE AppliedInOrder(_, _)
AppliedInOrder(seq, options) ==
    IF seq = <<>> THEN options
    ELSE AppliedInOrder(Tail(seq),
                        [options EXCEPT ![Head(seq).option] =
                            IF Head(seq).callable THEN @ + Head(seq).value ELSE Head(seq).value])

\* the mutations scheduled for iteration i, in scheduling order
ScheduledFor(i) == SelectSeq(mutator, LAMBDA m : m.step = i)

\* C26: the engine's step() changes no option value; a step_simulation() call of
\* iteration s runs its orientation, growth and engine step with the options
\* as they were before the call and then applies the mutations scheduled for s,
\* each once and in scheduling order; no other call changes an option.
C26_MutationsBetweenSteps ==
    [][IF proc'.calls > proc.calls /\ last'.op = "step_simulation" /\ ~last'.raised
       THEN /\ proc' = Called(step_simulation(proc, opts, npstream, pystream).W)
            /\ opts' = AppliedInOrder(ScheduledFor(proc.calls), opts)
       ELSE opts' = opts]_vars

\* two mutations of growth_rate scheduled for iteration 0, a value and then a
\* callable, have both been applied in that order, and the iteration that just
\* ran grew a tip at the new rate
C26_Witness ==
    /\ last.op = "step_simulation" /\ ~last.raised
    /\ proc.calls = 2
    /\ Len(mutator) = 2
    /\ mutator[1] = [step |-> 0, option |-> "growth_rate", value |-> 2, callable |-> FALSE]
    /\ mutator[2] = [step |-> 0, option |-> "growth_rate", value |-> 1, callable |-> TRUE]
    /\ opts.growth_rate = 3
    /\ \E h \in 1..Len(last.pre.heap) :
          /\ IsLiveTip(last.pre.heap[h])
          /\ proc.heap[h].length = last.pre.heap[h].length + 3 * Scale

\* C27: the nutrient attractor and repellent sources that setup_simulation()
\* adds to the field aggregator are among the aggregator's sources during and
\* after every later step_simulation() call.
C27_NutrientSourcesKept ==
    (proc.components /\ last.op \in {"setup", "step_simulation"})
        => Range(NutrientFinders(opts)) \subseteq Range(proc.sources)

\* C28: after every grow() call the new-end of the last recorded sub-segment
\* pair is the segment's current end, each pair's previous-end is the new-end
\* of the pair before it, and the record has grown by exactly one pair if the
\* call moved the tip and by none otherwise.
C28_SubsegmentChain ==
    last.op = "grow" =>
        LET s == last.pre.heap[last.h]
            t == proc.heap[last.h]
            n == Len(t.subsegments)
        IN  /\ t.subsegments[n][2] = t.end
            /\ \A j \in 2..n : t.subsegments[j][1] = t.subsegments[j - 1][2]
            /\ IsPrefix(s.subsegments, t.subsegments)
            /\ n = Len(s.subsegments) + (IF t.end # s.end THEN 1 ELSE 0)

\* C29: a step() that starts with no segment being a live tip returns, changes
\* no segment and adds none; it advances the time by time_step and appends one
\* entry to each history log, with empty tip lists and a biomass entry equal
\* to the previous one.
C29_IdleStep ==
    (last.op \in {"step", "step_simulation"} /\ get_tips(last.pre) = <<>>) =>
        /\ ~last.raised
        /\ proc.heap = last.pre.heap
        /\ proc.mycel.sections = last.pre.mycel.sections
        /\ proc.mycel.time = last.pre.mycel.time + opts.time_step
        /\ proc.mycel.time_series = Append(last.pre.mycel.time_series, <<>>)
        /\ proc.mycel.step_history =
               Append(last.pre.mycel.step_history, <<proc.mycel.time, <<>> >>)
        /\ Len(proc.mycel.biomass_history) = Len(last.pre.mycel.biomass_history) + 1
        /\ last.pre.mycel.biomass_history # <<>> =>
               proc.mycel.biomass_history[Len(proc.mycel.biomass_history)]
                   = last.pre.mycel.biomass_history[Len(last.pre.mycel.biomass_history)]

\* C30: step() called on an engine whose segment collection is empty returns
\* without raising, leaves the collection empty, advances the time by time_step
\* and appends an empty snapshot and a biomass entry of 0.
C30_TotalOnEmpty ==
    (last.op = "step" /\ last.pre.mycel.sections = <<>>) =>
        /\ ~last.raised
        /\ proc.mycel.sections = <<>>
        /\ proc.mycel.time = last.pre.mycel.time + opts.time_step
        /\ proc.mycel.time_series = Append(last.pre.mycel.time_series, <<>>)
        /\ proc.mycel.biomass_history = Append(last.pre.mycel.biomass_history, 0)

====
